---------------------------- MODULE Spec2Model ----------------------------
(***************************************************************************)
(* Structural assembly and collision engine of IDPConformerGenerator:      *)
(*   ldrs_helper.count_clashes        (specification SpecCC)               *)
(*   ldrs_helper.psurgeon             (specifications SpecPS, SpecPSAny)   *)
(*   ldrs_helper.sliding_window       (specification SpecSW)               *)
(*   ldrs_helper.break_check          (specification SpecBC)               *)
(*   fldrs_helper.clash_and_rotate_helper (specification SpecRot)          *)
(*   fldrs_helper.rotator             (specification SpecPivot)            *)
(*                                                                         *)
(* Conventions.  A structural array is a sequence of rows; Python's        *)
(* 0-based index k is index k+1 here.  Residue numbers, which the code     *)
(* keeps as strings and compares either as strings or after int(), are     *)
(* integers.  Coordinates are not carried: a distance the code computes    *)
(* from them is an input drawn where the code computes it, in integer      *)
(* model units.  A value count_clashes returns is a record                 *)
(* [exceeded, count]: the sentinel True is [exceeded |-> TRUE, count |-> 1]*)
(* (Python's True is the integer 1), an integer n is                       *)
(* [exceeded |-> FALSE, count |-> n].                                      *)
(***************************************************************************)
EXTENDS Integers, Sequences, FiniteSets, TLC

VARIABLES
    pc,             \* position of the modelled function
    case,           \* argument `case`
    max_clash,      \* argument `max_clash`
    \* ---- ldrs_helper.count_clashes
    fragment,       \* argument `fragment`: rows [res, el]
    parent,         \* argument `parent`: elements of parent.data_array
    tolerance,      \* argument `tolerance`, model units
    fragment_atoms, \* number of rows left in fragment_atoms / fragment_coords
    dropped_front,  \* rows sliced off the front of fragment_atoms
    num_clashes,    \* local `num_clashes`
    ci, cj,         \* loop indices i (parent), j (fragment), 1-based
    visited,        \* pairs <<i, k>> iterated, k the row's index in `fragment`
    near,           \* pairs iterated whose distance was below radii + tolerance
    cc_ret,         \* returned value
    \* ---- fldrs_helper.clash_and_rotate_helper
    max_rotation,   \* argument `max_rotation`
    n_pairs,        \* parent atoms x trimmed fragment atoms (fixed by the shapes)
    orientation,    \* the fragment's turn about the pivot axis since it was read
    n_clashes,      \* local `n_clashes`
    counter,        \* local `counter`
    results,        \* every value count_clashes returned, oldest first
    angles,         \* every angle rotator drew, oldest first
    \* ---- ldrs_helper.psurgeon
    idp_struc,      \* argument `idp_struc`: <<idr>>, or the tuple <<nidr, cidr>>
    fld_struc,      \* argument `fld_struc`: rows of the folded structure
    ranges,         \* argument `ranges`: <<lower, upper>>
    idp_form,       \* type of `idp_struc`: Path, tuple, Structure or ndarray
    fld_form,       \* type of `fld_struc`: Path or Structure
    new_struc_arr,  \* the array returned
    raised,         \* an exception left the function
    \* ---- ldrs_helper.sliding_window
    cterm_idr,      \* argument `cterm_idr`: rows of the file, [res, name, xyz]
    nterm_idr_lib,  \* argument `nterm_idr_lib`: rows of each file
    matches,        \* local `matches`
    idr_arr,        \* local `idr_arr`
    nterm_idr_arr,  \* local `nterm_idr_arr`
    cand,           \* place in nterm_idr_lib of the current nterm_idr, 1-based
    offset,         \* loop index i of line 467, 0-based
    tested,         \* <<cand, i>> of every offset whose gates were computed
    written,        \* the files written: [cand, i, clashes, rows]
    \* ---- ldrs_helper.break_check
    data,           \* structure.filtered_atoms of `fdata`: rows [res, name]
    coords_distances, \* local `coords_distances`, in tenths of an angstrom
    whole,          \* local `whole` once grouped: the ranges (first, last + 1)
    fld_seqs,       \* the list returned: one sequence of residues per segment
    bc_out,         \* how the call ended: None, list, or the exception raised
    \* ---- fldrs_helper.rotator
    chain,          \* argument `chain`: rows [res, name] of idp.data_array
    index,          \* local `index`, 0-based; -1 while unbound
    \* ---- fldrs_helper.count_clashes
    fragment_seq,   \* local `fragment_seq`: the residue number of each fragment row
    parent_atoms,   \* rows of parent.data_array
    kept,           \* local `fragment_atoms` after trimming: the rows left, 0-based
    fcc_i,          \* loop index i of line 401, 0-based
    fcc_j,          \* loop index j of line 402, 0-based
    fcc_num,        \* local `num_clashes`
    paired,         \* pairs <<i, row>> whose distance was computed
    fcc_ret,        \* returned value
    \* ---- ldrs_helper.tolerance_calculator with ldrs_helper.count_clashes
    tolerances,     \* the two normalized tolerances compared, in 160ths
    distances,      \* distance of every pair count_clashes iterates, in 128ths of an angstrom
    budgets,        \* <<max_clash, dist_tolerance>> returned for each tolerance
    outcomes,       \* what count_clashes returned under each budget
    \* ---- ldrs_helper.align_coords
    sample,         \* argument `sample`: rows [res, name]
    sample_x,       \* the x column of `sample`, in 1e-4 angstrom
    target0,        \* target[0] on the x axis, in 1e-4 angstrom
    translation_vector, \* local `translation_vector` on the x axis
    align_out,      \* how the call ended: returned, or the exception raised
    \* ---- libstructure.Structure
    parser,         \* what self._structure_parser does with the raw data: array or error
    datastr,        \* whether the attribute _datastr exists
    data_array,     \* attribute data_array: None or array
    filters,        \* attribute _filters: the filters added, oldest first
    last_call       \* the last method or property used and how it ended

ccVars == <<fragment, parent, tolerance, fragment_atoms, dropped_front,
            num_clashes, ci, cj, visited, near, cc_ret>>

rotVars == <<max_rotation, n_pairs, orientation, n_clashes, counter, results,
             angles>>

psVars == <<idp_struc, fld_struc, ranges, idp_form, fld_form, new_struc_arr,
            raised>>

swVars == <<cterm_idr, nterm_idr_lib, matches, idr_arr, nterm_idr_arr,
            cand, offset, tested, written>>

bcVars == <<data, coords_distances, whole, fld_seqs, bc_out>>

pivotVars == <<chain, index>>

fccVars == <<fragment_seq, parent_atoms, kept, fcc_i, fcc_j, fcc_num, paired,
            fcc_ret>>

tolVars == <<tolerances, distances, budgets, outcomes>>

alignVars == <<sample, sample_x, target0, translation_vector, align_out>>

structVars == <<parser, datastr, data_array, filters, last_call>>

vars == <<pc, case, max_clash, ccVars, rotVars, psVars, swVars, bcVars,
          pivotVars, fccVars, tolVars, alignVars, structVars>>

\* what each function leaves alone
notCC == <<rotVars, psVars, swVars, bcVars, pivotVars,
           fccVars, tolVars, alignVars, structVars>>
notRot == <<ccVars, psVars, swVars, bcVars, pivotVars,
            fccVars, tolVars, alignVars, structVars>>
notPS == <<max_clash, ccVars, rotVars, swVars, bcVars, pivotVars,
           fccVars, tolVars, alignVars, structVars>>
notSW == <<case, ccVars, rotVars, psVars, bcVars, pivotVars,
           fccVars, tolVars, alignVars, structVars>>
notBC == <<case, max_clash, ccVars, rotVars, psVars, swVars, pivotVars,
           fccVars, tolVars, alignVars, structVars>>
notPivot == <<max_clash, ccVars, rotVars, psVars, swVars, bcVars,
              fccVars, tolVars, alignVars, structVars>>
notFCC == <<ccVars, rotVars, psVars, swVars, bcVars, pivotVars, tolVars,
           alignVars, structVars>>
notTol == <<case, max_clash, ccVars, rotVars, psVars, swVars, bcVars, pivotVars,
           fccVars, alignVars, structVars>>
notAlign == <<max_clash, ccVars, rotVars, psVars, swVars, bcVars, pivotVars,
             fccVars, tolVars, structVars>>
notStruct == <<case, max_clash, ccVars, rotVars, psVars, swVars, bcVars,
              pivotVars, fccVars, tolVars, alignVars>>

-----------------------------------------------------------------------------
(* Shared definitions *)

disorder_cases == <<"N-IDR", "Break-IDR", "C-IDR">>   \* Python keys 0, 1, 2

\* Python truthiness of a str: only the empty string is false.
Truthy(s) == s # ""

Min(S) == CHOOSE x \in S : \A y \in S : x <= y
Max(S) == CHOOSE x \in S : \A y \in S : x >= y

Sentinel == [exceeded |-> TRUE, count |-> 1]
IntResult(n) == [exceeded |-> FALSE, count |-> n]
NoResult == [exceeded |-> FALSE, count |-> 0 - 1]


\* the variables of a function that is not running
IdleCC ==
    /\ fragment = <<>>
    /\ parent = <<>>
    /\ tolerance = 0
    /\ fragment_atoms = 0
    /\ dropped_front = 0
    /\ num_clashes = 0
    /\ ci = 1
    /\ cj = 1
    /\ visited = {}
    /\ near = 0
    /\ cc_ret = NoResult

IdleRot ==
    /\ max_rotation = 0
    /\ n_pairs = 0
    /\ orientation = 0
    /\ n_clashes = NoResult
    /\ counter = 0
    /\ results = <<>>
    /\ angles = <<>>

IdlePS ==
    /\ idp_struc = <<>>
    /\ fld_struc = <<>>
    /\ ranges = <<0, 0>>
    /\ idp_form = "Path"
    /\ fld_form = "Path"
    /\ new_struc_arr = <<>>
    /\ raised = FALSE

IdleSW ==
    /\ cterm_idr = <<>>
    /\ nterm_idr_lib = <<>>
    /\ matches = 0
    /\ idr_arr = <<>>
    /\ nterm_idr_arr = <<>>
    /\ cand = 0
    /\ offset = 0
    /\ tested = <<>>
    /\ written = <<>>

IdleBC ==
    /\ data = <<>>
    /\ coords_distances = <<>>
    /\ whole = <<>>
    /\ fld_seqs = <<>>
    /\ bc_out = ""

IdlePivot ==
    /\ chain = <<>>
    /\ index = -1

IdleFCC ==
    /\ fragment_seq = <<>>
    /\ parent_atoms = 0
    /\ kept = <<>>
    /\ fcc_i = 0
    /\ fcc_j = 0
    /\ fcc_num = 0
    /\ paired = {}
    /\ fcc_ret = NoResult

IdleTol ==
    /\ tolerances = <<>>
    /\ distances = <<>>
    /\ budgets = <<>>
    /\ outcomes = <<>>

IdleAlign ==
    /\ sample = <<>>
    /\ sample_x = <<>>
    /\ target0 = 0
    /\ translation_vector = 0
    /\ align_out = ""

IdleStruct ==
    /\ parser = ""
    /\ datastr = FALSE
    /\ data_array = "None"
    /\ filters = <<>>
    /\ last_call = [op |-> "", outcome |-> ""]

-----------------------------------------------------------------------------
(* Inputs: structural arrays *)

MaxRes == 5         \* residues of a fragment
MaxParent == 2      \* atoms of the parent chain
MaxClashArg == 2    \* largest max_clash argument drawn

\* van-der-Waals radii by element, in model units (the table itself,
\* idpconfgen.core.definitions.vdW_radii_tsai_1999, is imported by the code).
vdW_radii_tsai_1999 == [N |-> 3, C |-> 4]

\* Atoms per residue: every residue one atom, every residue two atoms, or
\* two and one in turn.  A residue's atoms are contiguous rows.
AtomPatterns == {"one", "two", "mixed"}
AtomsIn(pattern, r) ==
    CASE pattern = "one" -> 1
      [] pattern = "two" -> 2
      [] OTHER -> IF r % 2 = 1 THEN 2 ELSE 1

ElementAt(a) == IF a = 1 THEN "N" ELSE "C"

RECURSIVE Rows(_, _, _, _)
\* rows of residues r..n (numbered first + r - 1) of a structure
Rows(pattern, first, r, n) ==
    IF r > n THEN <<>>
    ELSE [a \in 1..AtomsIn(pattern, r) |->
              [res |-> first + r - 1, el |-> ElementAt(a)]]
         \o Rows(pattern, first, r + 1, n)

\* fragments: contiguously numbered, 1 to MaxRes residues
Fragments ==
    {Rows(p, f, 1, n) : p \in AtomPatterns, f \in {1, 2}, n \in 1..MaxRes}

Parents == {[k \in 1..n |-> ElementAt(k)] : n \in 1..MaxParent}

-----------------------------------------------------------------------------
(* ldrs_helper.count_clashes *)

\* fragment_seq[j - 1] for 1-based position j: Python index -1 is the last row
PrevSeq(seq, j) == IF j - 1 >= 1 THEN seq[j - 1].res ELSE seq[Len(seq)].res

\* RemovedBack stopping one residue back instead of three
RemovedBackOneResidue(seq) ==
    LET n == Len(seq)
        last_r == seq[n].res
        hits == {i \in 0..(n - 1) : last_r - PrevSeq(seq, n - i) = 1}
    IN  IF hits = {} THEN n ELSE Min(hits) + 1

\* lines 596-605: rows sliced off the end of fragment_atoms
RemovedBack(seq) ==
    LET n == Len(seq)
        last_r == seq[n].res
        hits == {i \in 0..(n - 1) : last_r - PrevSeq(seq, n - i) = 3}
    IN  IF hits = {} THEN n ELSE Min(hits) + 1

\* lines 608-616: rows sliced off the front of fragment_atoms; the read of
\* fragment_seq[i + 1] past the end raises IndexError, which skips the slice
RemovedFront(seq) ==
    LET n == Len(seq)
        first_r == seq[1].res
        hits == {i \in 0..(n - 2) : seq[i + 2].res - first_r = 3}
    IN  IF hits = {} THEN n - 1 ELSE Min(hits) + 1

\* line 594: `case == disorder_cases[0] or disorder_cases[1]`
TrimsBack(c) == c = disorder_cases[1] \/ Truthy(disorder_cases[2])

\* line 606
TrimsFront(c) == c = disorder_cases[3]

\* lines 594-616: <<rows dropped at the front, rows dropped at the back>>
Trimmed(seq, c) ==
    IF TrimsBack(c) THEN <<0, RemovedBack(seq)>>
    ELSE IF TrimsFront(c) THEN <<RemovedFront(seq), 0>>
    ELSE <<0, 0>>

\* line 630
Exceeded(n, mc) == n > mc

\* line 632 with <= for <
IsClashInclusive(distance, r1, r2, tol) == distance <= r1 + r2 + tol

\* line 632
IsClash(distance, r1, r2, tol) == distance < r1 + r2 + tol

\* lines 583-616
count_clashes_trim ==
    /\ pc = "start"
    /\ LET t == Trimmed(fragment, case)
       IN  /\ dropped_front' = t[1]
           /\ fragment_atoms' = Len(fragment) - t[1] - t[2]
    /\ num_clashes' = 0
    /\ ci' = 1
    /\ cj' = 1
    /\ pc' = "loop"
    /\ UNCHANGED <<case, max_clash, fragment, parent, tolerance, visited, near,
                   cc_ret>>
    /\ UNCHANGED notCC

\* lines 619-633: one iteration of the inner loop
count_clashes_pair ==
    /\ pc = "loop"
    /\ ci <= Len(parent)
    /\ cj <= fragment_atoms
    /\ LET atom1 == parent[ci]
           row == dropped_front + cj
           atom2 == fragment[row].el
           thr == vdW_radii_tsai_1999[atom1] + vdW_radii_tsai_1999[atom2]
                  + tolerance
       IN  \E distance \in {thr - 1, thr} :
             /\ visited' = visited \cup {<<ci, row>>}
             /\ near' = IF distance < thr THEN near + 1 ELSE near
             /\ IF Exceeded(num_clashes, max_clash)
                THEN /\ cc_ret' = Sentinel
                     /\ pc' = "done"
                     /\ UNCHANGED <<num_clashes, ci, cj>>
                ELSE /\ num_clashes' =
                          IF IsClash(distance, vdW_radii_tsai_1999[atom1],
                                     vdW_radii_tsai_1999[atom2], tolerance)
                          THEN num_clashes + 1 ELSE num_clashes
                     /\ IF cj < fragment_atoms
                        THEN cj' = cj + 1 /\ ci' = ci
                        ELSE cj' = 1 /\ ci' = ci + 1
                     /\ UNCHANGED <<pc, cc_ret>>
    /\ UNCHANGED <<case, max_clash, fragment, parent, tolerance,
                   fragment_atoms, dropped_front>>
    /\ UNCHANGED notCC

\* line 635: both loops ran to their end
count_clashes_return ==
    /\ pc = "loop"
    /\ (ci > Len(parent) \/ fragment_atoms = 0)
    /\ cc_ret' = IntResult(num_clashes)
    /\ pc' = "done"
    /\ UNCHANGED <<case, max_clash, fragment, parent, tolerance,
                   fragment_atoms, dropped_front, num_clashes, ci, cj, visited,
                   near>>
    /\ UNCHANGED notCC

InitCC ==
    /\ pc = "start"
    /\ case \in {disorder_cases[1], disorder_cases[2], disorder_cases[3]}
    /\ max_clash \in 0..MaxClashArg
    /\ fragment \in Fragments
    /\ parent \in Parents
    /\ tolerance \in {0, 1}
    /\ fragment_atoms = 0
    /\ dropped_front = 0
    /\ num_clashes = 0
    /\ ci = 1
    /\ cj = 1
    /\ visited = {}
    /\ near = 0
    /\ cc_ret = NoResult
    /\ IdleRot
    /\ IdlePS
    /\ IdleSW
    /\ IdleBC
    /\ IdlePivot
    /\ IdleFCC
    /\ IdleTol
    /\ IdleAlign
    /\ IdleStruct

NextCC ==
    \/ count_clashes_trim
    \/ count_clashes_pair
    \/ count_clashes_return

SpecCC == InitCC /\ [][NextCC]_vars

-----------------------------------------------------------------------------
(* Claims on ldrs_helper.count_clashes, checked under SpecCC *)

\* rows of `fragment` still in fragment_atoms after the trimming
KeptRows == (dropped_front + 1)..(dropped_front + fragment_atoms)

\* rows of the residues before the last k residue numbers
RowsBeforeLast(seq, k) ==
    {r \in 1..Len(seq) : seq[r].res <= seq[Len(seq)].res - k}

\* C1: count_clashes returns the exceeded sentinel whenever the clashing
\* pairs outnumber max_clash, so an integer it returns is never larger than
\* max_clash, also when the last pair iterated is the one that takes the
\* running count past max_clash.
C1_IntegerWithinBudget ==
    (pc = "done" /\ ~cc_ret.exceeded) => cc_ret.count <= max_clash

\* C6: with case C-IDR the rows excluded from the count are the leading rows
\* of the fragment (whole leading residues), and none of its trailing rows is
\* excluded.
C6_CIdrTrimsFront ==
    (pc # "start" /\ case = "C-IDR") =>
        /\ dropped_front + fragment_atoms = Len(fragment)
        /\ \A r \in 1..Len(fragment) :
               r \notin KeptRows => fragment[r].res < fragment[Len(fragment)].res

\* C7 as stated: N-IDR excludes exactly the rows of the last residue,
\* Break-IDR exactly the rows of the last three residues.
C7_CaseDependentTrim ==
    pc # "start" =>
        /\ case = "N-IDR" => KeptRows = RowsBeforeLast(fragment, 1)
        /\ case = "Break-IDR" => KeptRows = RowsBeforeLast(fragment, 3)

\* C7 amended: for N-IDR as for Break-IDR the rows excluded are exactly the
\* rows of the fragment's last three residues; no excluded row is ever paired
\* with a parent atom, and when an integer is returned every kept row has
\* been paired with every parent atom.
C7_LastThreeExcluded ==
    (pc # "start" /\ case \in {"N-IDR", "Break-IDR"}) =>
        /\ KeptRows = RowsBeforeLast(fragment, 3)
        /\ visited \subseteq (1..Len(parent)) \X KeptRows
        /\ (pc = "done" /\ ~cc_ret.exceeded) =>
               visited = (1..Len(parent)) \X KeptRows

\* an N-IDR fragment of five residues whose two leading residues were
\* counted against the whole parent
C7_Witness ==
    /\ pc = "done"
    /\ case = "N-IDR"
    /\ ~cc_ret.exceeded
    /\ fragment[Len(fragment)].res - fragment[1].res = 4
    /\ Len(fragment) > 5
    /\ Cardinality(visited) = Len(parent) * fragment_atoms
    /\ fragment_atoms >= 3

\* C14: an integer count_clashes returns is the number of pairs (parent
\* atom, fragment atom left after the trimming) whose distance is strictly
\* below the sum of the two radii and the tolerance: every such pair was
\* iterated, and a pair at exactly that distance is not in the count.
C14_ExactCount ==
    (pc = "done" /\ ~cc_ret.exceeded) =>
        /\ visited = (1..Len(parent)) \X KeptRows
        /\ cc_ret.count = near

\* an integer returned after pairs below and pairs exactly at the threshold
C14_Witness ==
    /\ pc = "done"
    /\ ~cc_ret.exceeded
    /\ cc_ret.count >= 1
    /\ Cardinality(visited) > near

-----------------------------------------------------------------------------
(* fldrs_helper.clash_and_rotate_helper, with rotator and count_clashes *)

MaxRotationArg == 2   \* largest max_rotation argument drawn
MaxPairs == 3         \* largest number of atom pairs count_clashes iterates
AngleSteps == 3       \* random.uniform(0, 2*pi) drawn as a multiple of 2*pi/AngleSteps

\* fldrs_helper.py line 412
FldrsExceeded(n, mc) == n >= mc

RECURSIVE FldrsCountFrom(_, _, _, _)
\* fldrs_helper.py lines 401-417 from pair k on, with n clashes counted so far;
\* clash[k] says whether pair k is closer than the two radii plus tolerance
FldrsCountFrom(clash, mc, k, n) ==
    IF k > Len(clash) THEN IntResult(n)
    ELSE IF FldrsExceeded(n, mc) THEN Sentinel
    ELSE FldrsCountFrom(clash, mc, k + 1, IF clash[k] THEN n + 1 ELSE n)

\* fldrs_helper.py lines 370-417
FldrsCountClashes(clash, mc) == FldrsCountFrom(clash, mc, 1, 0)

\* lines 438: `n_clashes == True`; Python's True equals the integer 1
EqualsTrue(r) == r.count = 1

\* line 438
KeepsRotating(r, cnt, maxrot) == EqualsTrue(r) /\ cnt <= maxrot

\* the drawn angle applied to the coordinates the fragment was read with
RotatedFromOriginal(current, angle) == angle % AngleSteps

\* lines 289-328 of rotator: the fragment's current coordinates are turned
\* by the drawn angle about the axis through the pivot atom
Rotated(current, angle) == (current + angle) % AngleSteps

\* lines 428-437: first rotation and clash count
clash_and_rotate_first ==
    /\ pc = "start"
    /\ \E angle \in 0..(AngleSteps - 1), clash \in [1..n_pairs -> BOOLEAN] :
         /\ orientation' = Rotated(orientation, angle)
         /\ n_clashes' = FldrsCountClashes(clash, max_clash)
         /\ results' = Append(results, FldrsCountClashes(clash, max_clash))
         /\ angles' = Append(angles, angle)
    /\ counter' = 1
    /\ pc' = "loop"
    /\ UNCHANGED <<case, max_clash, max_rotation, n_pairs>>
    /\ UNCHANGED notRot

\* lines 438-448: one pass of the while loop
clash_and_rotate_retry ==
    /\ pc = "loop"
    /\ KeepsRotating(n_clashes, counter, max_rotation)
    /\ \E angle \in 0..(AngleSteps - 1), clash \in [1..n_pairs -> BOOLEAN] :
         /\ orientation' = Rotated(orientation, angle)
         /\ n_clashes' = FldrsCountClashes(clash, max_clash)
         /\ results' = Append(results, FldrsCountClashes(clash, max_clash))
         /\ angles' = Append(angles, angle)
    /\ counter' = counter + 1
    /\ UNCHANGED <<pc, case, max_clash, max_rotation, n_pairs>>
    /\ UNCHANGED notRot

\* line 450
clash_and_rotate_return ==
    /\ pc = "loop"
    /\ ~KeepsRotating(n_clashes, counter, max_rotation)
    /\ pc' = "done"
    /\ UNCHANGED <<case, max_clash, rotVars>>
    /\ UNCHANGED notRot

InitRot ==
    /\ pc = "start"
    /\ case \in {disorder_cases[1], disorder_cases[3]}
    /\ max_clash \in 0..MaxClashArg
    /\ max_rotation \in 0..MaxRotationArg
    /\ n_pairs \in 1..MaxPairs
    /\ orientation = 0
    /\ n_clashes = NoResult
    /\ counter = 0
    /\ results = <<>>
    /\ angles = <<>>
    /\ IdleCC
    /\ IdlePS
    /\ IdleSW
    /\ IdleBC
    /\ IdlePivot
    /\ IdleFCC
    /\ IdleTol
    /\ IdleAlign
    /\ IdleStruct

NextRot ==
    \/ clash_and_rotate_first
    \/ clash_and_rotate_retry
    \/ clash_and_rotate_return

SpecRot == InitRot /\ [][NextRot]_vars

-----------------------------------------------------------------------------
(* Claims on clash_and_rotate_helper, checked under SpecRot *)

\* C4: the helper stops rotating at the first orientation count_clashes
\* accepts: a result that is an integer count (any value, 1 included) and
\* not the sentinel is the last result, no rotation follows it.
C4_StopsAtFirstAccepted ==
    \A k \in 1..Len(results) : ~results[k].exceeded => k = Len(results)

\* C5: when every orientation is rejected the helper has made at most
\* max_rotation rotate-and-clash-check attempts when it returns (stated for
\* max_rotation >= 1).
C5_AtMostMaxRotationAttempts ==
    (/\ pc = "done"
     /\ max_rotation >= 1
     /\ \A k \in 1..Len(results) : results[k].exceeded)
        => Len(results) <= max_rotation

RECURSIVE SumOf(_, _)
\* seq[k] + seq[k + 1] + ...
SumOf(seq, k) == IF k > Len(seq) THEN 0 ELSE seq[k] + SumOf(seq, k + 1)

\* C27: every attempt turns the fragment's current coordinates: after n
\* attempts the fragment's turn about the pivot axis is the sum of the n
\* angles drawn; one clash count is made per rotation, and the value returned
\* is the count made on the last orientation.
C27_RotationsCompose ==
    /\ Len(angles) = Len(results)
    /\ orientation = SumOf(angles, 1) % AngleSteps
    /\ pc = "done" => n_clashes = results[Len(results)]

\* three attempts whose angles add up to another turn than the last angle
C27_Witness ==
    /\ pc = "done"
    /\ Len(angles) >= 3
    /\ \A k \in 1..Len(angles) : angles[k] # 0
    /\ orientation # angles[Len(angles)]

-----------------------------------------------------------------------------
(* ldrs_helper.psurgeon.  Structures are given as Path and built by the    *)
(* function (lines 661-679); `x._data_array = a` followed by               *)
(* `x.data_array` reads `a` back.                                          *)

MaxSide == 2    \* residues of the folded structure on either side of a break

RECURSIVE ResidueRows(_, _, _, _)
\* rows of the residues numbered nums[r], nums[r + 1], ... read from file src
ResidueRows(src, pattern, nums, r) ==
    IF r > Len(nums) THEN <<>>
    ELSE [a \in 1..AtomsIn(pattern, r) |->
              [res |-> nums[r], serial |-> 0, chainID |-> "B", segid |-> "B",
               src |-> src, idx |-> 0]]
         \o ResidueRows(src, pattern, nums, r + 1)

\* a parsed file: row k has serial k; idx remembers the row's place in the file
Structure(src, pattern, nums) ==
    LET rows == ResidueRows(src, pattern, nums, 1)
    IN  [k \in 1..Len(rows) |-> [rows[k] EXCEPT !.serial = k, !.idx = k]]

\* residue numbers first, first + 1, ... (n of them)
Numbers(first, n) == [k \in 1..n |-> first + k - 1]

\* a folded structure: a residues, g residues missing, b residues
FoldedNumbers(first, a, g, b) == Numbers(first, a) \o Numbers(first + a + g, b)

\* lines 687-693, 753-759, 797-803, 821-827: rows sliced off the end
DropLastCount(arr) ==
    LET n == Len(arr)
        hits == {i \in 0..(n - 1) : PrevSeq(arr, n - i) # arr[n - i].res}
    IN  IF hits = {} THEN n ELSE Min(hits) + 1

\* the slice of line 691 taken once, whatever the residue's atom count
DropLastRow(arr) == SubSeq(arr, 1, Len(arr) - 1)

\* lines 687-693: the array without the rows of its last residue
DropLastResidue(arr) == SubSeq(arr, 1, Len(arr) - DropLastCount(arr))

\* lines 697-702, 763-768, 808-813, 830-835: iterations i (0-based) at which
\* `next != curr` breaks the loop
FirstBreaks(arr) == {i \in 0..(Len(arr) - 2) : arr[i + 2].res # arr[i + 1].res}

\* in those loops the read of seq[i + 1] past the last row raises IndexError
DropFirstRaises(arr) == arr # <<>> /\ FirstBreaks(arr) = {}

DropFirstResidue(arr) ==
    IF FirstBreaks(arr) = {} THEN <<>>
    ELSE SubSeq(arr, Min(FirstBreaks(arr)) + 2, Len(arr))

\* lines 713-721: the IndexError is caught and the row of that pass is kept
BreakDropFirstResidue(arr) ==
    IF arr = <<>> THEN <<>>
    ELSE IF FirstBreaks(arr) = {} THEN SubSeq(arr, Len(arr), Len(arr))
    ELSE SubSeq(arr, Min(FirstBreaks(arr)) + 2, Len(arr))

\* line 734 with `seq == actual_upper` forgotten
AtLowerBreakSite(seq, actual_lower, actual_upper) == seq = actual_lower

\* line 734
AtBreakSite(seq, actual_lower, actual_upper) ==
    seq = actual_lower \/ seq = actual_upper

RECURSIVE NotAtBreakSite(_, _, _, _)
\* lines 732-739: fld_data_list, the rows of og_fld_list from row k on that
\* are not at the break site
NotAtBreakSite(arr, k, actual_lower, actual_upper) ==
    IF k > Len(arr) THEN <<>>
    ELSE (IF AtBreakSite(arr[k].res, actual_lower, actual_upper)
          THEN <<>> ELSE <<arr[k]>>)
         \o NotAtBreakSite(arr, k + 1, actual_lower, actual_upper)

\* line 745 with the offset one too small
BreakRenumberedLow(arr, actual_lower) ==
    [k \in 1..Len(arr) |-> [arr[k] EXCEPT !.res = arr[k].res + actual_lower - 3]]

\* lines 741-745
BreakRenumbered(arr, actual_lower) ==
    [k \in 1..Len(arr) |-> [arr[k] EXCEPT !.res = arr[k].res + actual_lower - 2]]

\* lines 708-748: [raised, arr]
BreakIdr(idp_arr, fld_arr, rng) ==
    LET lower == rng[1]
        upper == rng[2]
        idr_data_array == BreakDropFirstResidue(idp_arr)
        first_fld_seq == fld_arr[1].res
        actual_lower == first_fld_seq + lower - 1
        actual_upper == first_fld_seq + upper
        found == {i \in 1..Len(fld_arr) :
                      AtBreakSite(fld_arr[i].res, actual_lower, actual_upper)}
        fld_data_list == NotAtBreakSite(fld_arr, 1, actual_lower, actual_upper)
        idr_data_list == BreakRenumbered(idr_data_array, actual_lower)
    IN  IF found = {}
        THEN \* insert_idx is unbound at line 746
             [raised |-> idr_data_list # <<>>, arr |-> fld_data_list]
        ELSE LET insert_idx == Min(found) - 1
             IN  [raised |-> FALSE,
                  arr |-> SubSeq(fld_data_list, 1, insert_idx)
                          \o idr_data_list
                          \o SubSeq(fld_data_list, insert_idx + 1,
                                    Len(fld_data_list))]

RECURSIVE RenumberFrom(_, _, _)
\* lines 776-783, 843-850: rows k.. get curr_residue, which grows by one
\* wherever the next row's original number differs
RenumberFrom(arr, k, curr_residue) ==
    IF k > Len(arr) THEN <<>>
    ELSE <<[arr[k] EXCEPT !.res = curr_residue]>>
         \o RenumberFrom(arr, k + 1,
                IF k + 1 <= Len(arr) /\ arr[k + 1].res # arr[k].res
                THEN curr_residue + 1 ELSE curr_residue)

\* the renumbering of lines 773-783 left out
NotRenumbered(arr, last_residue_fld) == arr

\* lines 773-783, 840-850
Renumbered(arr, last_residue_fld) == RenumberFrom(arr, 1, last_residue_fld + 1)

\* lines 684-706: [raised, arr]
NIdr(idp_arr, fld_arr) ==
    [raised |-> DropFirstRaises(fld_arr),
     arr |-> DropLastResidue(idp_arr) \o DropFirstResidue(fld_arr)]

\* lines 750-786: [raised, arr]
CIdr(idp_arr, fld_arr) ==
    LET fld_data_array == DropLastResidue(fld_arr)
        idr_data_array == DropFirstResidue(idp_arr)
    IN  IF DropFirstRaises(idp_arr) \/ fld_data_array = <<>>
        THEN [raised |-> TRUE, arr |-> <<>>]
        ELSE [raised |-> FALSE,
              arr |-> fld_data_array
                      \o Renumbered(idr_data_array,
                                    fld_data_array[Len(fld_data_array)].res)]

\* lines 788-852: [raised, arr]
NIdrCIdr(nidr_arr, cidr_arr, fld_arr) ==
    LET first == NIdr(nidr_arr, fld_arr)
        new_struc == DropLastResidue(first.arr)
        cidr_data_array == DropFirstResidue(cidr_arr)
    IN  IF first.raised \/ DropFirstRaises(cidr_arr) \/ new_struc = <<>>
        THEN [raised |-> TRUE, arr |-> <<>>]
        ELSE [raised |-> FALSE,
              arr |-> new_struc
                      \o Renumbered(cidr_data_array,
                                    new_struc[Len(new_struc)].res)]

\* lines 856-857 without the serials of lines 854-855
CanonicalChainOnly(arr) ==
    [k \in 1..Len(arr) |-> [arr[k] EXCEPT !.chainID = "A", !.segid = "A"]]

\* lines 854-857
Canonical(arr) ==
    [k \in 1..Len(arr) |->
        [arr[k] EXCEPT !.serial = k, !.chainID = "A", !.segid = "A"]]

\* lines 661-859: what the call leaves in new_struc_arr and raised
Returns(r) ==
    /\ raised' = r.raised
    /\ new_struc_arr' = IF r.raised THEN <<>> ELSE Canonical(r.arr)
    /\ pc' = "done"
    /\ UNCHANGED <<case, idp_struc, fld_struc, ranges, idp_form, fld_form>>
    /\ UNCHANGED notPS

\* an exception leaves the function
Raises == [raised |-> TRUE, arr |-> <<>>]

\* lines 661-682: the local `fld` is bound in the Path branch only
FldBound(form) == form = "Path"

\* lines 669-682: the local `idr` is bound in the Path branch only
IdrBound(form) == form = "Path"

\* lines 680-682: the last branch slices idp_struc as an array, which a
\* Structure does not support (TypeError)
IdpSliceRaises(form) == form = "Structure"

\* the branches of lines 684, 708, 750 and 788
KnownCases ==
    {disorder_cases[1], disorder_cases[2], disorder_cases[3],
     disorder_cases[1] \o disorder_cases[3]}

\* no branch taken, and new_struc_arr handed back as the folded array
UnrecognisedReturnsFolded(fld_arr) == [raised |-> FALSE, arr |-> fld_arr]

\* lines 684-854: no branch is taken (there is no else); new_struc_arr is
\* unbound where line 854 reads it (UnboundLocalError)
Unrecognised(fld_arr) == Raises

\* lines 684-706; `idr._data_array` at 695 and `fld._data_array` at 704
psurgeon_nidr ==
    /\ pc = "start"
    /\ case = disorder_cases[1]
    /\ Returns(IF IdrBound(idp_form) /\ FldBound(fld_form)
               THEN NIdr(idp_struc[1], fld_struc) ELSE Raises)

\* lines 708-748; neither `idr` nor `fld` is read
psurgeon_break ==
    /\ pc = "start"
    /\ case = disorder_cases[2]
    /\ Returns(IF IdpSliceRaises(idp_form)
               THEN Raises ELSE BreakIdr(idp_struc[1], fld_struc, ranges))

\* lines 750-786; `fld._data_array` at 761 and `idr._data_array` at 770
psurgeon_cidr ==
    /\ pc = "start"
    /\ case = disorder_cases[3]
    /\ Returns(IF IdrBound(idp_form) /\ FldBound(fld_form)
               THEN CIdr(idp_struc[1], fld_struc) ELSE Raises)

\* lines 788-852; idp_struc is the tuple, `fld._data_array` at 816
psurgeon_nidr_cidr ==
    /\ pc = "start"
    /\ case = disorder_cases[1] \o disorder_cases[3]
    /\ Returns(IF FldBound(fld_form)
               THEN NIdrCIdr(idp_struc[1], idp_struc[2], fld_struc)
               ELSE Raises)

\* lines 684-859 with a case none of the branches compares equal to
psurgeon_other_case ==
    /\ pc = "start"
    /\ case \notin KnownCases
    /\ Returns(Unrecognised(fld_struc))

\* fragments of 2 to MaxRes residues, numbered from `first`
PsFragments(src, firsts, patterns) ==
    {Structure(src, p, Numbers(f, n)) :
        p \in patterns, f \in firsts, n \in 2..MaxRes}

\* the arguments of a call: one fragment with a case of `single`, the
\* bridging fragment with Break-IDR, or the tuple with the combined case
PsArguments(patterns, single) ==
    /\ pc = "start"
    /\ max_clash = 0
    /\ new_struc_arr = <<>>
    /\ raised = FALSE
    /\ \E first \in {1, 3}, a \in 1..MaxSide, b \in 1..MaxSide,
          g \in {0, 2}, p \in patterns :
         /\ fld_struc = Structure("fld", p, FoldedNumbers(first, a, g, b))
         /\ \/ /\ case \in single
               /\ idp_struc \in
                      {<<f>> : f \in PsFragments("idr", {1, 4}, patterns)}
               /\ ranges = <<0, 0>>
            \/ \* the bridging fragment: numbered from 1, one residue before
               \* the break site, the break site itself, the missing residues
               /\ case = disorder_cases[2]
               /\ idp_struc \in
                      {<<Structure("idr", q, Numbers(1, g + 3))>> :
                          q \in patterns}
               /\ ranges = <<a, a + g>>
            \/ /\ case = disorder_cases[1] \o disorder_cases[3]
               /\ idp_struc \in
                      {<<n, c>> :
                          n \in PsFragments("nidr", {1, 4}, patterns),
                          c \in PsFragments("cidr", {1, 4}, {"mixed"})}
               /\ ranges = <<0, 0>>
    /\ IdleCC
    /\ IdleRot
    /\ IdleSW
    /\ IdleBC
    /\ IdlePivot
    /\ IdleFCC
    /\ IdleTol
    /\ IdleAlign
    /\ IdleStruct

\* every structure is given as Path (the tuple holds two)
InitPS ==
    /\ PsArguments(AtomPatterns, {disorder_cases[1], disorder_cases[3]})
    /\ idp_form = IF Len(idp_struc) = 2 THEN "tuple" ELSE "Path"
    /\ fld_form = "Path"

NextPS ==
    \/ psurgeon_nidr
    \/ psurgeon_break
    \/ psurgeon_cidr
    \/ psurgeon_nidr_cidr

SpecPS == InitPS /\ [][NextPS]_vars

\* a case string outside disorder_cases and their concatenation
OtherCases == {"Linker-IDR"}

\* structures given as Path or in memory, any case string
InitPSAny ==
    /\ PsArguments({"mixed"},
                   {disorder_cases[1], disorder_cases[3]} \cup OtherCases)
    /\ idp_form \in IF Len(idp_struc) = 2 THEN {"tuple"}
                    ELSE {"Path", "Structure", "ndarray"}
    /\ fld_form \in {"Path", "Structure"}

NextPSAny ==
    \/ psurgeon_nidr
    \/ psurgeon_break
    \/ psurgeon_cidr
    \/ psurgeon_nidr_cidr
    \/ psurgeon_other_case

SpecPSAny == InitPSAny /\ [][NextPSAny]_vars

-----------------------------------------------------------------------------
(* Claims on psurgeon, checked under SpecPS *)

\* the input structure a row of the result was read from
SourceOf(row) ==
    CASE row.src = "fld" -> fld_struc
      [] row.src = "cidr" -> idp_struc[2]
      [] OTHER -> idp_struc[1]

\* the residue number the row had in its input file
OriginalRes(row) == SourceOf(row)[row.idx].res

\* rows k and k + 1 of the result belong to two residues
ResidueBoundary(k) ==
    \/ new_struc_arr[k].src # new_struc_arr[k + 1].src
    \/ OriginalRes(new_struc_arr[k]) # OriginalRes(new_struc_arr[k + 1])

\* arr is numbered without gap or repeat
ContiguouslyNumbered(arr) ==
    \A k \in 1..(Len(arr) - 1) :
        arr[k + 1].res = arr[k].res \/ arr[k + 1].res = arr[k].res + 1

\* rows of the result read from file src (their places in the result)
PlacesFrom(src) == {k \in 1..Len(new_struc_arr) : new_struc_arr[k].src = src}

ActualLower == fld_struc[1].res + ranges[1] - 1
ActualUpper == fld_struc[1].res + ranges[2]

\* C2: for N-IDR, C-IDR and the combined case with a contiguously numbered
\* folded structure and contiguously numbered fragments, and for Break-IDR
\* with the bridging fragment of the break, the residue numbers of the array
\* psurgeon returns grow by exactly 1 at every residue boundary, the
\* fragment/folded junctions included, and by 0 inside a residue.
C2_ContiguousNumbering ==
    (/\ pc = "done"
     /\ ~raised
     /\ case # "Break-IDR" => ContiguouslyNumbered(fld_struc)
     /\ \A f \in 1..Len(idp_struc) : ContiguouslyNumbered(idp_struc[f]))
        => \A k \in 1..(Len(new_struc_arr) - 1) :
               new_struc_arr[k + 1].res =
                   new_struc_arr[k].res + (IF ResidueBoundary(k) THEN 1 ELSE 0)

\* C8 as stated: with Break-IDR every folded residue numbered strictly
\* between the two bounds of the break is absent from the result and every
\* other folded residue is present with its number.
C8_StrictlyWithinRemoved ==
    (pc = "done" /\ case = "Break-IDR" /\ ~raised) =>
        \A i \in 1..Len(fld_struc) :
            LET present == \E k \in PlacesFrom("fld") :
                               /\ new_struc_arr[k].idx = i
                               /\ new_struc_arr[k].res = fld_struc[i].res
            IN  IF ActualLower < fld_struc[i].res /\ fld_struc[i].res < ActualUpper
                THEN ~present ELSE present

\* C8 amended: with Break-IDR the folded residues absent from the result are
\* exactly the two at the break site, numbered first + lower - 1 and
\* first + upper; every other folded row is present once, with its residue
\* number, and the folded rows keep their order.
C8_BreakSiteResiduesRemoved ==
    (pc = "done" /\ case = "Break-IDR" /\ ~raised) =>
        /\ \A i \in 1..Len(fld_struc) :
               LET places == {k \in PlacesFrom("fld") : new_struc_arr[k].idx = i}
               IN  IF fld_struc[i].res \in {ActualLower, ActualUpper}
                   THEN places = {}
                   ELSE /\ Cardinality(places) = 1
                        /\ \A k \in places :
                               new_struc_arr[k].res = fld_struc[i].res
        /\ \A k1, k2 \in PlacesFrom("fld") :
               k1 < k2 => new_struc_arr[k1].idx < new_struc_arr[k2].idx

\* a break with folded residues kept on both sides of the two removed ones
C8_Witness ==
    /\ pc = "done"
    /\ case = "Break-IDR"
    /\ ~raised
    /\ ActualUpper > ActualLower + 1
    /\ \E i, j \in 1..Len(fld_struc) :
           fld_struc[i].res = ActualLower /\ fld_struc[j].res = ActualUpper
    /\ \E k1, k2 \in PlacesFrom("fld") :
           new_struc_arr[k1].res < ActualLower /\ new_struc_arr[k2].res > ActualUpper

\* C9: with Break-IDR the rows of the fragment without its first residue sit
\* in the result as one block, in their order, where the break is: every
\* folded row before the block lies before the break and every folded row
\* after it lies after the break; the block's first residue has the number
\* following the folded residue before it, and its last residue the number
\* preceding the folded residue after it.
C9_FragmentFillsGap ==
    (pc = "done" /\ case = "Break-IDR" /\ ~raised) =>
        LET block == PlacesFrom("idr")
            idr == idp_struc[1]
            dropped == Cardinality({i \in 1..Len(idr) : idr[i].res = idr[1].res})
            p == Min(block)
            q == Max(block)
        IN  /\ block # {}
            /\ block = p..q
            /\ q - p + 1 = Len(idr) - dropped
            /\ \A k \in block : new_struc_arr[k].idx = dropped + (k - p + 1)
            /\ \A k \in 1..(p - 1) : new_struc_arr[k].res < ActualLower
            /\ \A k \in (q + 1)..Len(new_struc_arr) :
                   new_struc_arr[k].res > ActualUpper
            /\ p > 1 => new_struc_arr[p].res = new_struc_arr[p - 1].res + 1
            /\ q < Len(new_struc_arr) =>
                   new_struc_arr[q].res = new_struc_arr[q + 1].res - 1
            /\ \A k \in p..(q - 1) :
                   new_struc_arr[k + 1].res =
                       new_struc_arr[k].res + (IF ResidueBoundary(k) THEN 1 ELSE 0)

\* a break of two missing residues bridged, folded rows on both sides
C9_Witness ==
    /\ pc = "done"
    /\ case = "Break-IDR"
    /\ ~raised
    /\ ranges[2] = ranges[1] + 2
    /\ PlacesFrom("idr") # {}
    /\ Min(PlacesFrom("idr")) > 1
    /\ Max(PlacesFrom("idr")) < Len(new_struc_arr)
    /\ fld_struc[1].res = 3

\* C10: with C-IDR the result is the folded rows without those of the last
\* folded residue, then the fragment's rows without those of its first
\* residue; the appended residues are numbered L + 1, L + 2, ... in order,
\* L the last residue number of the folded part kept.
C10_CIdrAppendsRenumbered ==
    (pc = "done" /\ case = "C-IDR") =>
        LET idr == idp_struc[1]
            nf == Cardinality({i \in 1..Len(fld_struc) :
                      fld_struc[i].res # fld_struc[Len(fld_struc)].res})
            m == Cardinality({i \in 1..Len(idr) : idr[i].res = idr[1].res})
        IN  /\ ~raised
            /\ Len(new_struc_arr) = nf + Len(idr) - m
            /\ \A k \in 1..nf :
                   /\ new_struc_arr[k].src = "fld"
                   /\ new_struc_arr[k].idx = k
                   /\ new_struc_arr[k].res = fld_struc[k].res
            /\ \A k \in 1..(Len(idr) - m) :
                   /\ new_struc_arr[nf + k].src = "idr"
                   /\ new_struc_arr[nf + k].idx = m + k
                   /\ new_struc_arr[nf + k].res =
                          fld_struc[nf].res + (idr[m + k].res - idr[1].res)

\* a fragment numbered from 4 appended to a folded structure numbered from 1
C10_Witness ==
    /\ pc = "done"
    /\ case = "C-IDR"
    /\ ~raised
    /\ idp_struc[1][1].res = 4
    /\ fld_struc[1].res = 1
    /\ Cardinality(PlacesFrom("idr")) >= 3
    /\ Cardinality(PlacesFrom("fld")) >= 2

\* C11: with N-IDR the result is the fragment's rows without those of its
\* final residue, in their order, followed by the folded structure's rows
\* without those of its first residue, in their order, each with the residue
\* number it had; nothing else is dropped or added.
C11_NIdrConcatenates ==
    (pc = "done" /\ case = "N-IDR") =>
        LET idr == idp_struc[1]
            ni == Cardinality({i \in 1..Len(idr) :
                      idr[i].res # idr[Len(idr)].res})
            m == Cardinality({i \in 1..Len(fld_struc) :
                     fld_struc[i].res = fld_struc[1].res})
        IN  /\ ~raised
            /\ Len(new_struc_arr) = ni + Len(fld_struc) - m
            /\ \A k \in 1..ni :
                   /\ new_struc_arr[k].src = "idr"
                   /\ new_struc_arr[k].idx = k
                   /\ new_struc_arr[k].res = idr[k].res
            /\ \A k \in 1..(Len(fld_struc) - m) :
                   /\ new_struc_arr[ni + k].src = "fld"
                   /\ new_struc_arr[ni + k].idx = m + k
                   /\ new_struc_arr[ni + k].res = fld_struc[m + k].res

\* a fragment whose final residue has two atoms grafted before a folded
\* structure whose first residue has two atoms
C11_Witness ==
    /\ pc = "done"
    /\ case = "N-IDR"
    /\ ~raised
    /\ Len(idp_struc[1]) >= 4
    /\ idp_struc[1][Len(idp_struc[1]) - 1].res = idp_struc[1][Len(idp_struc[1])].res
    /\ fld_struc[2].res = fld_struc[1].res
    /\ Cardinality(PlacesFrom("fld")) >= 2

\* C20: in every array psurgeon returns row i has serial i and every row has
\* chain ID and segment ID "A"; the reassignment of lines 854-857 applied to
\* the returned array gives the same array.
C20_CanonicalForm ==
    (pc = "done" /\ ~raised) =>
        /\ \A k \in 1..Len(new_struc_arr) :
               /\ new_struc_arr[k].serial = k
               /\ new_struc_arr[k].chainID = "A"
               /\ new_struc_arr[k].segid = "A"
        /\ Canonical(new_struc_arr) = new_struc_arr

\* a returned array holding a row whose serial in its file was another
C20_Witness ==
    /\ pc = "done"
    /\ ~raised
    /\ \E k \in 1..Len(new_struc_arr) :
           /\ SourceOf(new_struc_arr[k])[new_struc_arr[k].idx].serial # k
           /\ SourceOf(new_struc_arr[k])[new_struc_arr[k].idx].chainID # "A"

-----------------------------------------------------------------------------
(* Claims on psurgeon's arguments, checked under SpecPSAny *)

\* C18: psurgeon called with a case that is none of N-IDR, Break-IDR, C-IDR
\* and N-IDR + C-IDR ends in an error and returns no array.
C18_UnknownCaseFails ==
    (pc = "done" /\ case \notin KnownCases) =>
        (raised /\ new_struc_arr = <<>>)

\* an unrecognised case called with both structures given as Path
C18_Witness ==
    /\ pc = "done"
    /\ case \in OtherCases
    /\ idp_form = "Path"
    /\ fld_form = "Path"
    /\ raised

\* C19: for N-IDR, C-IDR and Break-IDR psurgeon returns the grafted array
\* whether the donor and the folded structure are given as Path or as
\* structures in memory; it does not raise.
C19_EitherFormReturns ==
    (pc = "done" /\ case \in {"N-IDR", "Break-IDR", "C-IDR"}) => ~raised

-----------------------------------------------------------------------------
(* ldrs_helper.sliding_window.  The three measures of lines 473-475 are    *)
(* functions of the coordinates of the two files; whether they pass the    *)
(* gates of line 477 is drawn where the code computes them.                *)

MaxSwRes == 5   \* residues of the C-side fragment
MaxLib == 2     \* files in nterm_idr_lib

BackboneAtoms == <<"N", "CA", "C", "O">>

\* the rows of residue r in the file `file`: the backbone atoms and, unless
\* the residue is the proline of the sequence, the amide H.  xyz stands for the three
\* coordinate columns of the row.
ConformerResidue(file, r, pro) ==
    LET names == IF r = pro THEN BackboneAtoms ELSE Append(BackboneAtoms, "H")
    IN  [k \in 1..Len(names) |->
            [res |-> r, name |-> names[k],
             xyz |-> [of |-> file, res |-> r, name |-> names[k]]]]

\* rows of a conformer file of n residues numbered from 1
RECURSIVE Conformer(_, _, _)
Conformer(file, n, pro) ==
    IF n = 0 THEN <<>>
    ELSE Conformer(file, n - 1, pro) \o ConformerResidue(file, n, pro)

\* lines 443-450, 461-465: places of the rows named `name`, in file order
RowsNamed(arr, name) == {k \in 1..Len(arr) : arr[k].name = name}

\* the residue number of the i-th (0-based) row named C: idr_res[i]
IdrRes(arr, i) ==
    LET cs == RowsNamed(arr, "C")
    IN  arr[CHOOSE k \in cs : Cardinality({j \in cs : j < k}) = i].res

\* lines 467-472: offset i is tested: idr_C has an element i and the reads
\* nterm_idr_N[i + 1], nterm_idr_CA[i + 1] raise no IndexError
HasOffset(c_arr, n_arr, i) ==
    /\ i < Cardinality(RowsNamed(c_arr, "C"))
    /\ i + 1 < Cardinality(RowsNamed(n_arr, "N"))
    /\ i + 1 < Cardinality(RowsNamed(n_arr, "CA"))

\* lines 481-486: passes p (0-based) of the trimming loop at which
\* `next == term_residue + 1` breaks it
TrimBreaks(resseq, term_residue) ==
    {p \in 0..(Len(resseq) - 2) : resseq[p + 2].res = term_residue + 1}

\* lines 481-486: the trimming loop raises IndexError: idr_resseq[p + 1] is
\* read past the end, or idr_arr[p] is read past the end of the current idr_arr
TrimRaises(resseq, arr, term_residue) ==
    \/ TrimBreaks(resseq, term_residue) = {}
    \/ Min(TrimBreaks(resseq, term_residue)) + 1 > Len(arr)

\* rows the trimming loop passes over (one more than its last p)
TrimCount(resseq, term_residue) == Min(TrimBreaks(resseq, term_residue)) + 1

\* line 484 left out: nterm_idr_arr keeps its leading rows
KeepFront(arr, n) == arr

\* nterm_idr_arr[1:] taken n times
DropFront(arr, n) == SubSeq(arr, n + 1, Len(arr))

\* ldrs_helper.count_clashes lines 619-635 on `pairs` atom pairs: the values
\* it can return as the distances vary.  An integer up to max_clash + 1 (the
\* test of line 630 precedes the count of the same pair), the sentinel when
\* a pair follows the one that took the count past max_clash.
PossibleCounts(pairs, mc) ==
    {IntResult(n) : n \in 0..Min({pairs, mc + 1})}
        \cup (IF pairs >= mc + 2 THEN {Sentinel} ELSE {})

\* lines 491-497: the values the call of count_clashes can return
PossibleClashes(frag, par, mc) ==
    PossibleCounts(Len(par) * (Len(frag) - RemovedBack(frag)), mc)

\* lines 505-513: the rows the scan for O_idx and H_idx passes over (0-based):
\* it stops at the first row of residue term_residue + 2
Scanned(arr, term_residue) ==
    {k \in 0..(Len(arr) - 1) :
        \A j \in 0..k : arr[j + 1].res # term_residue + 2}

\* lines 506-508: the last scanned row named O of residue term_residue.
\* Every residue of a conformer file has an O atom.
O_idx(arr, term_residue) ==
    Max({k \in Scanned(arr, term_residue) :
            arr[k + 1].res = term_residue /\ arr[k + 1].name = "O"})

\* lines 504, 509-511: the last scanned row named H of residue
\* term_residue + 1, -1 when there is none
H_idx(arr, term_residue) ==
    LET hs == {k \in Scanned(arr, term_residue) :
                  arr[k + 1].res = term_residue + 1 /\ arr[k + 1].name = "H"}
    IN  IF hs = {} THEN -1 ELSE Max(hs)

\* lines 516-528: the recomputed positions
new_O_xyz(term_residue) == [of |-> "new_O_xyz", res |-> term_residue, name |-> "O"]
new_H_xyz(term_residue) == [of |-> "new_H_xyz", res |-> term_residue + 1, name |-> "H"]

\* lines 530-536: final_struc_arr after the two positions are overwritten
Repositioned(arr, term_residue) ==
    LET o == O_idx(arr, term_residue)
        h == H_idx(arr, term_residue)
    IN  [k \in 1..Len(arr) |->
            IF k - 1 = o
            THEN [arr[k] EXCEPT !.xyz = new_O_xyz(term_residue)]
            ELSE IF h > 0 /\ k - 1 = h
                 THEN [arr[k] EXCEPT !.xyz = new_H_xyz(term_residue)]
                 ELSE arr[k]]

\* line 540 left out
MatchNotCounted(m) == m

\* line 540: matches += 1
MatchCounted(m) == m + 1

\* lines 431-450
sliding_window_start ==
    /\ pc = "start"
    /\ matches' = 0
    /\ idr_arr' = cterm_idr
    /\ cand' = 1
    /\ pc' = "candidate"
    /\ UNCHANGED <<max_clash, cterm_idr, nterm_idr_lib, nterm_idr_arr, offset,
                   tested, written>>
    /\ UNCHANGED notSW

\* lines 452-465: the next file of the library is read
sliding_window_candidate ==
    /\ pc = "candidate"
    /\ cand <= Len(nterm_idr_lib)
    /\ nterm_idr_arr' = nterm_idr_lib[cand]
    /\ offset' = 0
    /\ pc' = "offset"
    /\ UNCHANGED <<max_clash, cterm_idr, nterm_idr_lib, matches, idr_arr, cand,
                   tested, written>>
    /\ UNCHANGED notSW

\* lines 467-542: one pass of the loop over idr_C
sliding_window_offset ==
    /\ pc = "offset"
    /\ HasOffset(cterm_idr, nterm_idr_lib[cand], offset)
    /\ tested' = Append(tested, <<cand, offset>>)
    /\ \E gates \in BOOLEAN :
         IF ~gates
         THEN /\ offset' = offset + 1
              /\ UNCHANGED <<pc, matches, idr_arr, nterm_idr_arr, written>>
         ELSE LET term_residue == IdrRes(cterm_idr, offset)
              IN  IF TrimRaises(cterm_idr, idr_arr, term_residue)
                  THEN /\ pc' = "raised"
                       /\ UNCHANGED <<offset, matches, idr_arr, nterm_idr_arr,
                                      written>>
                  ELSE LET n == TrimCount(cterm_idr, term_residue)
                           idr_list == SubSeq(idr_arr, 1, n)
                           nterm_rest == DropFront(nterm_idr_arr, n)
                       IN  /\ idr_arr' = idr_list
                           /\ nterm_idr_arr' = nterm_rest
                           /\ \E clashes \in
                                  PossibleClashes(idr_list, nterm_rest, max_clash) :
                                IF ~clashes.exceeded
                                THEN /\ matches' = MatchCounted(matches)
                                     /\ written' = Append(written,
                                            [cand |-> cand, i |-> offset,
                                             clashes |-> clashes.count,
                                             rows |-> Repositioned(
                                                 idr_list \o nterm_rest,
                                                 term_residue)])
                                ELSE UNCHANGED <<matches, written>>
                           /\ offset' = offset + 1
                           /\ UNCHANGED pc
    /\ UNCHANGED <<max_clash, cterm_idr, nterm_idr_lib, cand>>
    /\ UNCHANGED notSW

\* lines 467-472: idr_C is used up, or the IndexError of line 471 breaks
sliding_window_break ==
    /\ pc = "offset"
    /\ ~HasOffset(cterm_idr, nterm_idr_lib[cand], offset)
    /\ cand' = cand + 1
    /\ pc' = "candidate"
    /\ UNCHANGED <<max_clash, cterm_idr, nterm_idr_lib, matches, idr_arr,
                   nterm_idr_arr, offset, tested, written>>
    /\ UNCHANGED notSW

\* line 544
sliding_window_return ==
    /\ pc = "candidate"
    /\ cand > Len(nterm_idr_lib)
    /\ pc' = "done"
    /\ UNCHANGED <<max_clash, swVars>>
    /\ UNCHANGED notSW

InitSW ==
    /\ pc = "start"
    /\ case = disorder_cases[2]
    /\ max_clash \in 0..MaxClashArg
    /\ \E pro \in {3} :
         /\ cterm_idr \in {Conformer("cterm_idr", n, pro) : n \in 2..MaxSwRes}
         /\ nterm_idr_lib \in
                UNION {[1..k -> {Conformer("nterm_idr", n, pro) :
                                    n \in {2, MaxSwRes, MaxSwRes + 1}}] :
                           k \in 1..MaxLib}
    /\ matches = 0
    /\ idr_arr = <<>>
    /\ nterm_idr_arr = <<>>
    /\ cand = 0
    /\ offset = 0
    /\ tested = <<>>
    /\ written = <<>>
    /\ IdleCC
    /\ IdleRot
    /\ IdlePS
    /\ IdleBC
    /\ IdlePivot
    /\ IdleFCC
    /\ IdleTol
    /\ IdleAlign
    /\ IdleStruct

NextSW ==
    \/ sliding_window_start
    \/ sliding_window_candidate
    \/ sliding_window_offset
    \/ sliding_window_break
    \/ sliding_window_return

SpecSW == InitSW /\ [][NextSW]_vars

-----------------------------------------------------------------------------
(* Claims on sliding_window, checked under SpecSW *)

\* C3: the offsets of a candidate are tested in increasing order, and once
\* an offset of a candidate has been accepted (its gates passed and the
\* merged structure was written) no further offset of that candidate is
\* tested.
C3_FirstFitPerCandidate ==
    /\ \A s, t \in 1..Len(tested) :
           (s < t /\ tested[s][1] = tested[t][1]) => tested[s][2] < tested[t][2]
    /\ \A w \in 1..Len(written) : \A t \in 1..Len(tested) :
           tested[t][1] = written[w].cand => tested[t][2] <= written[w].i

\* C12: a merged structure is written only for an offset whose gates were
\* computed and passed, and only when no more than max_clash pairs of the
\* two trimmed fragments clash.
C12_WrittenWithinBudget ==
    \A w \in 1..Len(written) :
        /\ \E t \in 1..Len(tested) : tested[t] = <<written[w].cand, written[w].i>>
        /\ written[w].clashes <= max_clash

\* C13: the value sliding_window returns is the number of files it wrote,
\* one for each accepted pair of the C-side fragment and a library entry; it
\* is 0 exactly when nothing was written.
C13_ReturnsWrittenCount ==
    pc = "done" =>
        /\ matches = Len(written)
        /\ matches = Cardinality({written[w].cand : w \in 1..Len(written)})
        /\ (matches = 0) <=> (written = <<>>)

\* a library of two entries, both accepted
C13_Witness ==
    /\ pc = "done"
    /\ Len(nterm_idr_lib) >= 2
    /\ matches = 2
    /\ Len(written) = 2

\* C22: the C-side fragment data that sliding_window reads for an offset or
\* a candidate is the original, untrimmed fragment: nothing done for an
\* earlier offset or candidate (gate pass, trimming, acceptance or clash
\* rejection) changes it.
C22_FragmentUntouched ==
    pc \in {"candidate", "offset", "raised", "done"} => idr_arr = cterm_idr

\* rows of arr that pass the test
RowsWhere(arr, Test(_)) == SelectSeq(arr, Test)

\* C26: a written structure is the C-side fragment's rows of every residue
\* up to and including the matched residue followed by the candidate's rows
\* of every residue after it, in source order; every row is as in its
\* source except that the O of the matched residue and the H of the residue
\* after it (when it has one) carry the recomputed positions.
C26_MergedAtBoundary ==
    \A w \in 1..Len(written) :
        LET term == IdrRes(cterm_idr, written[w].i)
            UpTo(row) == row.res <= term
            After(row) == row.res > term
            joined == RowsWhere(cterm_idr, UpTo)
                         \o RowsWhere(nterm_idr_lib[written[w].cand], After)
            rows == written[w].rows
        IN  /\ Len(rows) = Len(joined)
            /\ \A k \in 1..Len(rows) :
                   /\ rows[k].res = joined[k].res
                   /\ rows[k].name = joined[k].name
                   /\ rows[k].xyz =
                          IF joined[k].res = term /\ joined[k].name = "O"
                          THEN new_O_xyz(term)
                          ELSE IF joined[k].res = term + 1 /\ joined[k].name = "H"
                               THEN new_H_xyz(term)
                               ELSE joined[k].xyz

\* two structures were written, one whose residue after the boundary has an
\* H and one whose residue after the boundary is the proline; each holds
\* rows of both files
C26_Witness ==
    /\ pc = "done"
    /\ \E v, w \in 1..Len(written) :
           /\ \E k \in 1..Len(written[v].rows) :
                  written[v].rows[k].xyz.of = "new_H_xyz"
           /\ \A k \in 1..Len(written[w].rows) :
                  written[w].rows[k].xyz.of # "new_H_xyz"
           /\ \A x \in {v, w} : \A f \in {"cterm_idr", "nterm_idr", "new_O_xyz"} :
                  \E k \in 1..Len(written[x].rows) : written[x].rows[k].xyz.of = f

-----------------------------------------------------------------------------
(* ldrs_helper.break_check.  Distances are in tenths of an angstrom; those *)
(* the code computes from the coordinates are drawn where it computes      *)
(* them.  A residue's one-letter code is stood for by its residue number.  *)

MaxBcRes == 3   \* residues of the structure
MaxOdd == 2     \* consecutive pairs that are not at bond length

\* the minimal backbone of a residue, whole or lacking one atom
ResidueAtoms ==
    [whole |-> <<"N", "CA", "C">>, noN |-> <<"CA", "C">>,
     noCA |-> <<"N", "C">>, noC |-> <<"N", "CA">>]

RECURSIVE BackboneRows(_, _)
\* lines 248-252: the filtered atoms of residues r.. of a structure whose
\* residue r has the atoms ResidueAtoms[kinds[r]]
BackboneRows(kinds, r) ==
    IF r > Len(kinds) THEN <<>>
    ELSE [a \in 1..Len(ResidueAtoms[kinds[r]]) |->
              [res |-> r, name |-> ResidueAtoms[kinds[r]][a]]]
         \o BackboneRows(kinds, r + 1)

\* lines 256-262: rows of n, ca, c
MaskCount(arr, name) == Cardinality(RowsNamed(arr, name))

\* lines 264-268: assigning `value` rows to a slice of `slots` rows raises
\* ValueError unless the shapes agree or the value has one row (broadcast)
AssignRaises(slots, value) == value # slots /\ value # 1

\* lines 264-274
CoordsRaise(arr) ==
    \/ AssignRaises(MaskCount(arr, "N"), MaskCount(arr, "CA"))
    \/ AssignRaises(MaskCount(arr, "N"), MaskCount(arr, "C"))

\* lines 276-277: the size of coords[:-1] - coords[1:] against
\* coords.shape[0] - 1, which differ when coords is empty
AssertFails(arr) == MaskCount(arr, "N") = 0

\* lines 276: the distance vectors of size n drawn: bond length 1.5-ish
\* everywhere but at no more than MaxOdd places, where 2.1 or 2.2
DistanceVectors(n) ==
    UNION {{[i \in 1..n |-> IF i \in S THEN v[i] ELSE 20] : v \in [S -> {21, 22}]} :
              S \in {T \in SUBSET (1..n) : Cardinality(T) <= MaxOdd}}

\* line 279 with >= for >
IsBreakInclusive(dist) == dist >= 21

\* line 279: dist > 2.1
IsBreak(dist) == dist > 21

\* line 282: dist < 2.1
InWhole(dist) == dist < 21

RECURSIVE WholeFrom(_, _)
\* lines 280-283: the 0-based places i >= k - 1 with dist < 2.1, ascending
WholeFrom(dists, k) ==
    IF k > Len(dists) THEN <<>>
    ELSE (IF InWhole(dists[k]) THEN <<k - 1>> ELSE <<>>) \o WholeFrom(dists, k + 1)

RECURSIVE Grouper(_, _, _, _)
\* lines 138-148: the groups from element k on, the open group running
\* from `first` to `last`; each group gives (first, last + 1)
Grouper(seq, k, first, last) ==
    IF k > Len(seq) THEN <<<<first, last + 1>>>>
    ELSE IF seq[k] = last + 1 THEN Grouper(seq, k + 1, first, seq[k])
    ELSE <<<<first, last + 1>>>> \o Grouper(seq, k + 1, seq[k], seq[k])

\* lines 119-150; seq[0] of an empty seq raises IndexError
consecutive_grouper(seq) == Grouper(seq, 2, seq[1], seq[1])

\* line 288: list(range(idx[0], idx[1], 3)), 0-based rows of data
FldIdx(idx) ==
    [j \in 1..((idx[2] - idx[1] + 2) \div 3) |-> idx[1] + 3 * (j - 1)]

\* line 289: a row of fld_idx lies past the end of data (IndexError)
SegmentRaises(arr, idx) ==
    \E j \in 1..Len(FldIdx(idx)) : FldIdx(idx)[j] >= Len(arr)

\* line 289: the residues of the rows fld_idx
Segment(arr, idx) ==
    [j \in 1..Len(FldIdx(idx)) |-> arr[FldIdx(idx)[j] + 1].res]

\* what leaves break_check
BcReturns(out, seqs) ==
    /\ bc_out' = out
    /\ fld_seqs' = seqs
    /\ pc' = "done"

\* lines 248-274: the coordinates do not fit, IDPConfGenException
break_check_mismatch ==
    /\ pc = "start"
    /\ CoordsRaise(data)
    /\ BcReturns("IDPConfGenException", <<>>)
    /\ UNCHANGED <<data, coords_distances, whole>>
    /\ UNCHANGED notBC

\* lines 248-277
break_check_distances ==
    /\ pc = "start"
    /\ ~CoordsRaise(data)
    /\ IF AssertFails(data)
       THEN /\ BcReturns("AssertionError", <<>>)
            /\ UNCHANGED coords_distances
       ELSE /\ coords_distances' \in DistanceVectors(3 * MaskCount(data, "N") - 1)
            /\ pc' = "distances"
            /\ UNCHANGED <<fld_seqs, bc_out>>
    /\ UNCHANGED <<data, whole>>
    /\ UNCHANGED notBC

\* lines 279, 293: no distance above 2.1, None is returned
break_check_none ==
    /\ pc = "distances"
    /\ ~\E i \in 1..Len(coords_distances) : IsBreak(coords_distances[i])
    /\ BcReturns("None", <<>>)
    /\ UNCHANGED <<data, coords_distances, whole>>
    /\ UNCHANGED notBC

\* lines 279-291
break_check_segments ==
    /\ pc = "distances"
    /\ \E i \in 1..Len(coords_distances) : IsBreak(coords_distances[i])
    /\ LET places == WholeFrom(coords_distances, 1)
       IN  IF places = <<>>
           THEN /\ BcReturns("IndexError", <<>>)
                /\ UNCHANGED whole
           ELSE LET bounds == consecutive_grouper(places)
                IN  /\ whole' = bounds
                    /\ IF \E b \in 1..Len(bounds) : SegmentRaises(data, bounds[b])
                       THEN BcReturns("IndexError", <<>>)
                       ELSE BcReturns("list",
                                [b \in 1..Len(bounds) |-> Segment(data, bounds[b])])
    /\ UNCHANGED <<data, coords_distances>>
    /\ UNCHANGED notBC

InitBC ==
    /\ pc = "start"
    /\ case = ""
    /\ max_clash = 0
    /\ data \in {BackboneRows(kinds, 1) :
                    kinds \in UNION {[1..n -> DOMAIN ResidueAtoms] :
                                        n \in 1..MaxBcRes}}
    /\ coords_distances = <<>>
    /\ whole = <<>>
    /\ fld_seqs = <<>>
    /\ bc_out = ""
    /\ IdleCC
    /\ IdleRot
    /\ IdlePS
    /\ IdleSW
    /\ IdlePivot
    /\ IdleFCC
    /\ IdleTol
    /\ IdleAlign
    /\ IdleStruct

NextBC ==
    \/ break_check_mismatch
    \/ break_check_distances
    \/ break_check_none
    \/ break_check_segments

SpecBC == InitBC /\ [][NextBC]_vars

-----------------------------------------------------------------------------
(* Claims on break_check, checked under SpecBC *)

\* C15: break_check ends in IDPConfGenException, with nothing returned, for
\* every structure whose numbers of N, CA and C atoms are not all equal, also
\* when one of the three occurs exactly once (stated for structures that
\* hold at least one N atom).
C15_MismatchRaises ==
    (/\ pc = "done"
     /\ MaskCount(data, "N") >= 1
     /\ \/ MaskCount(data, "N") # MaskCount(data, "CA")
        \/ MaskCount(data, "N") # MaskCount(data, "C"))
        => (bc_out = "IDPConfGenException" /\ fld_seqs = <<>>)

\* C16: when the distances along the interleaved N, CA, C backbone were
\* computed and none of them is above 2.1, break_check returns None and no
\* list of segments.
C16_NoBreakReturnsNone ==
    (/\ pc = "done"
     /\ coords_distances # <<>>
     /\ \A i \in 1..Len(coords_distances) : coords_distances[i] <= 21)
        => (bc_out = "None" /\ fld_seqs = <<>>)

\* None returned for three residues with a pair at exactly 2.1
C16_Witness ==
    /\ pc = "done"
    /\ bc_out = "None"
    /\ Len(coords_distances) >= 8
    /\ \E i \in 1..Len(coords_distances) : coords_distances[i] = 21

\* every residue of the structure has its N, CA and C
WholeResidues ==
    /\ Len(data) % 3 = 0
    /\ \A k \in 1..Len(data) :
           data[k] = [res |-> ((k - 1) \div 3) + 1,
                      name |-> ResidueAtoms.whole[((k - 1) % 3) + 1]]

\* the 0-based place i of coords_distances lies in one of the grouped ranges
InSegmentRange(i) == \E b \in 1..Len(whole) : whole[b][1] <= i /\ i < whole[b][2]

\* C23: a consecutive pair is treated as a discontinuity exactly when its
\* distance is above 2.1: when a list is returned, the pairs left out of
\* the folded ranges are those above 2.1, and a pair at exactly 2.1 is inside
\* a range.
C23_BreakIffAbove ==
    (pc = "done" /\ bc_out = "list" /\ WholeResidues) =>
        \A i \in 1..Len(coords_distances) :
            (coords_distances[i] > 21) <=> ~InSegmentRange(i - 1)

\* the places (1-based) of coords_distances above 2.1
Discontinuities == {i \in 1..Len(coords_distances) : coords_distances[i] > 21}

RECURSIVE RunsFrom(_, _)
\* the residues r, r + 1, ... cut after every residue whose bond to the next
\* one is a discontinuity; `run` is the run being built
RunsFrom(r, run) ==
    IF 3 * r > Len(data) THEN <<run>>
    ELSE IF 3 * (r - 1) \in Discontinuities
         THEN <<run>> \o RunsFrom(r + 1, <<r>>)
         ELSE RunsFrom(r + 1, Append(run, r))

\* C24: for a structure of whole residues with k >= 1 discontinuities, all
\* of them at peptide bonds (C of a residue to N of the next), break_check
\* returns k + 1 sequences, in chain order, each holding the residues of one
\* maximal run between discontinuities.
C24_SegmentsBetweenBreaks ==
    (/\ pc = "done"
     /\ WholeResidues
     /\ Discontinuities # {}
     /\ \A i \in Discontinuities : i % 3 = 0)
        => /\ bc_out = "list"
           /\ Len(fld_seqs) = Cardinality(Discontinuities) + 1
           /\ fld_seqs = RunsFrom(2, <<1>>)

-----------------------------------------------------------------------------
(* fldrs_helper.rotator: the choice of the point of rotation *)

MaxChainRes == 3    \* residues of the chain rotated

\* the atoms of a residue, in file order
ChainResidues ==
    [backbone |-> <<"N", "CA", "C", "O">>,
     amide |-> <<"N", "H", "CA", "C", "O">>,
     sidechain |-> <<"N", "CA", "C", "O", "CB">>]

RECURSIVE ChainRows(_, _)
\* lines 294-300: idp.data_array of a chain whose residue r has the atoms
\* ChainResidues[kinds[r]]
ChainRows(kinds, r) ==
    IF r > Len(kinds) THEN <<>>
    ELSE [a \in 1..Len(ChainResidues[kinds[r]]) |->
              [res |-> r, name |-> ChainResidues[kinds[r]][a]]]
         \o ChainRows(kinds, r + 1)

\* lines 303-306: the last row named N (0-based)
LastNamed(names, name) == Max(RowsNamed(names, name)) - 1

\* lines 308-311: the first row named C (0-based)
FirstNamed(names, name) == Min(RowsNamed(names, name)) - 1

\* lines 302-311 and the read of `index` at line 321
rotator_pivot ==
    /\ pc = "start"
    /\ case \in {disorder_cases[1], disorder_cases[3]}
    /\ index' = IF case = disorder_cases[1]
                THEN LastNamed(chain, "N") ELSE FirstNamed(chain, "C")
    /\ pc' = "done"
    /\ UNCHANGED <<case, chain>>
    /\ UNCHANGED notPivot

\* lines 302-321 with any other case: `index` is unbound where line 321
\* reads it (UnboundLocalError)
rotator_unbound ==
    /\ pc = "start"
    /\ case \notin {disorder_cases[1], disorder_cases[3]}
    /\ pc' = "raised"
    /\ UNCHANGED <<case, chain, index>>
    /\ UNCHANGED notPivot

InitPivot ==
    /\ pc = "start"
    /\ case \in {disorder_cases[1], disorder_cases[2], disorder_cases[3]}
    /\ max_clash = 0
    /\ chain \in {ChainRows(kinds, 1) :
                     kinds \in UNION {[1..n -> DOMAIN ChainResidues] :
                                         n \in 1..MaxChainRes}}
    /\ index = -1
    /\ IdleCC
    /\ IdleRot
    /\ IdlePS
    /\ IdleSW
    /\ IdleBC
    /\ IdleFCC
    /\ IdleTol
    /\ IdleAlign
    /\ IdleStruct

NextPivot ==
    \/ rotator_pivot
    \/ rotator_unbound

SpecPivot == InitPivot /\ [][NextPivot]_vars

-----------------------------------------------------------------------------
(* Claims on rotator, checked under SpecPivot *)

\* C17: the atom rotator turns a single-sided fragment about is the terminal
\* CA: the CA of the fragment's last residue with N-IDR, the CA of its first
\* residue with C-IDR.
C17_PivotIsTerminalCA ==
    pc = "done" =>
        /\ chain[index + 1].name = "CA"
        /\ case = "N-IDR" => chain[index + 1].res = chain[Len(chain)].res
        /\ case = "C-IDR" => chain[index + 1].res = chain[1].res

-----------------------------------------------------------------------------
(* fldrs_helper.count_clashes: the trimming of lines 378-398 and the loop  *)
(* over the pairs of lines 401-417.  `kept` holds, for every row left in   *)
(* fragment_atoms, its place in fragment.data_array (0-based).             *)

MaxFRes == 2      \* residues of the fragment
MaxFAtoms == 3    \* atoms of a residue

RECURSIVE ResSeq(_, _)
\* fragment_seq of a fragment whose residue r has counts[r] rows
ResSeq(counts, r) ==
    IF r > Len(counts) THEN <<>>
    ELSE [a \in 1..counts[r] |-> r] \o ResSeq(counts, r + 1)

\* np.delete(arr, i, axis=0) for an index within the array
Deleted(arr, i) == SubSeq(arr, 1, i) \o SubSeq(arr, i + 2, Len(arr))

\* what the trimming leaves: the rows, or the IndexError
TrimOk(atoms) == [raised |-> FALSE, atoms |-> atoms]
TrimError == [raised |-> TRUE, atoms |-> <<>>]

\* fragment_seq[j] for a Python index j, negative ones counted from the end
SeqAt(seq, j) == IF j >= 0 THEN seq[j + 1] ELSE seq[Len(seq) + j + 1]

RECURSIVE TrimLast(_, _, _)
\* lines 380-387, from pass i on
TrimLast(seq, atoms, i) ==
    IF i >= Len(seq) THEN TrimOk(atoms)
    ELSE LET j == Len(seq) - 1 - i
             curr == SeqAt(seq, j)
             prev == SeqAt(seq, j - 1)
         IN  IF j >= Len(atoms) THEN TrimError
             ELSE IF prev # curr THEN TrimOk(Deleted(atoms, j))
                  ELSE TrimLast(seq, Deleted(atoms, j), i + 1)

RECURSIVE TrimFirst(_, _, _)
\* lines 392-398, from pass i on: fragment_seq[i + 1] is read before the
\* delete, and the delete takes index i of the array as the earlier passes
\* left it
TrimFirst(seq, atoms, i) ==
    IF i >= Len(seq) THEN TrimOk(atoms)
    ELSE IF i + 1 >= Len(seq) THEN TrimError
         ELSE IF i >= Len(atoms) THEN TrimError
              ELSE IF seq[i + 2] # seq[i + 1] THEN TrimOk(Deleted(atoms, i))
                   ELSE TrimFirst(seq, Deleted(atoms, i), i + 1)

\* lines 378-398
FldrsTrimmed(seq, c) ==
    LET atoms == [k \in 1..Len(seq) |-> k - 1]
    IN  CASE c = disorder_cases[1] -> TrimLast(seq, atoms, 0)
          [] c = disorder_cases[2] -> TrimOk(atoms)
          [] c = disorder_cases[3] -> TrimFirst(seq, atoms, 0)
          [] OTHER -> TrimOk(atoms)

\* lines 370-398
fldrs_count_clashes_trim ==
    /\ pc = "start"
    /\ LET t == FldrsTrimmed(fragment_seq, case)
       IN  /\ kept' = t.atoms
           /\ pc' = IF t.raised THEN "raised" ELSE "loop"
    /\ fcc_num' = 0
    /\ fcc_i' = 0
    /\ fcc_j' = 0
    /\ UNCHANGED <<case, max_clash, fragment_seq, parent_atoms, paired, fcc_ret>>
    /\ UNCHANGED notFCC

\* lines 401-415: one pass of the inner loop
fldrs_count_clashes_pair ==
    /\ pc = "loop"
    /\ fcc_i < parent_atoms
    /\ fcc_j < Len(kept)
    /\ paired' = paired \cup {<<fcc_i, kept[fcc_j + 1]>>}
    /\ IF FldrsExceeded(fcc_num, max_clash)
       THEN /\ fcc_ret' = Sentinel
            /\ pc' = "done"
            /\ UNCHANGED <<fcc_num, fcc_i, fcc_j>>
       ELSE /\ \E near_pair \in BOOLEAN :
                 fcc_num' = IF near_pair THEN fcc_num + 1 ELSE fcc_num
            /\ IF fcc_j + 1 < Len(kept)
               THEN fcc_j' = fcc_j + 1 /\ fcc_i' = fcc_i
               ELSE fcc_j' = 0 /\ fcc_i' = fcc_i + 1
            /\ UNCHANGED <<pc, fcc_ret>>
    /\ UNCHANGED <<case, max_clash, fragment_seq, parent_atoms, kept>>
    /\ UNCHANGED notFCC

\* line 417: both loops ran to their end
fldrs_count_clashes_return ==
    /\ pc = "loop"
    /\ (fcc_i >= parent_atoms \/ Len(kept) = 0)
    /\ fcc_ret' = IntResult(fcc_num)
    /\ pc' = "done"
    /\ UNCHANGED <<case, max_clash, fragment_seq, parent_atoms, kept, fcc_i,
                   fcc_j, fcc_num, paired>>
    /\ UNCHANGED notFCC

InitFCC ==
    /\ pc = "start"
    /\ case \in {disorder_cases[1], disorder_cases[2], disorder_cases[3]}
    /\ max_clash \in 0..MaxClashArg
    /\ fragment_seq \in
           {ResSeq(counts, 1) :
               counts \in UNION {[1..n -> 1..MaxFAtoms] : n \in 1..MaxFRes}}
    /\ parent_atoms \in 1..MaxParent
    /\ kept = <<>>
    /\ fcc_i = 0
    /\ fcc_j = 0
    /\ fcc_num = 0
    /\ paired = {}
    /\ fcc_ret = NoResult
    /\ IdleCC
    /\ IdleRot
    /\ IdlePS
    /\ IdleSW
    /\ IdleBC
    /\ IdlePivot
    /\ IdleTol
    /\ IdleAlign
    /\ IdleStruct

NextFCC ==
    \/ fldrs_count_clashes_trim
    \/ fldrs_count_clashes_pair
    \/ fldrs_count_clashes_return

SpecFCC == InitFCC /\ [][NextFCC]_vars

-----------------------------------------------------------------------------
(* Claims on fldrs_helper.count_clashes, checked under SpecFCC *)

\* rows of fragment.data_array (0-based) outside its first residue
AfterFirstResidue ==
    {k \in 0..(Len(fragment_seq) - 1) : fragment_seq[k + 1] # fragment_seq[1]}

\* C25: with C-IDR and a fragment of two or more residues the trimming
\* raises no error and the rows left for the count are exactly those outside
\* the fragment's first residue; a count that ran through every pair paired
\* each of them with every parent atom.
C25_CIdrExcludesFirstResidue ==
    (/\ pc # "start"
     /\ case = disorder_cases[3]
     /\ AfterFirstResidue # {}) =>
        /\ pc # "raised"
        /\ {kept[k] : k \in 1..Len(kept)} = AfterFirstResidue
        /\ (pc = "done" /\ ~fcc_ret.exceeded) =>
               paired = (0..(parent_atoms - 1)) \X AfterFirstResidue

-----------------------------------------------------------------------------
(* ldrs_helper.tolerance_calculator, and ldrs_helper.count_clashes run on  *)
(* one parent, fragment and case under the budgets of two tolerances.  A   *)
(* normalized tolerance is counted in 160ths, so that int(tolerance * 80)  *)
(* rounds down; tolerance * 1.25 angstrom is then that many 128ths of an   *)
(* angstrom, the unit of the distances.  Every atom is a carbon.           *)

MaxTol == 3        \* largest tolerance drawn below the clamp, in 160ths
MaxTolPairs == 3   \* atom pairs count_clashes iterates

\* lines 54-62: <<max_clash, dist_tolerance>>
tolerance_calculator(t) ==
    LET clamped == IF t > 160 THEN 160 ELSE IF t < 0 THEN 0 ELSE t
    IN  <<(clamped * 80) \div 160, clamped>>

RECURSIVE LdrsCountFrom(_, _, _, _, _)
\* lines 619-635 from pair k on, with n clashes counted so far
LdrsCountFrom(dist, mc, tol, k, n) ==
    IF k > Len(dist) THEN IntResult(n)
    ELSE IF Exceeded(n, mc) THEN Sentinel
    ELSE LdrsCountFrom(dist, mc, tol, k + 1,
             IF IsClash(dist[k], vdW_radii_tsai_1999.C, vdW_radii_tsai_1999.C,
                        tol)
             THEN n + 1 ELSE n)

\* lines 619-635
LdrsCountClashes(dist, mc, tol) == LdrsCountFrom(dist, mc, tol, 1, 0)

\* tolerance_calculator called on the next tolerance
tolerance_calculator_call ==
    /\ pc = "start"
    /\ budgets' = Append(budgets,
                         tolerance_calculator(tolerances[Len(budgets) + 1]))
    /\ pc' = IF Len(budgets) + 1 = Len(tolerances) THEN "count" ELSE "start"
    /\ UNCHANGED <<tolerances, distances, outcomes>>
    /\ UNCHANGED notTol

\* count_clashes called with the next budget
count_clashes_call ==
    /\ pc = "count"
    /\ LET budget == budgets[Len(outcomes) + 1]
       IN  outcomes' = Append(outcomes,
                              LdrsCountClashes(distances, budget[1], budget[2]))
    /\ pc' = IF Len(outcomes) + 1 = Len(budgets) THEN "done" ELSE "count"
    /\ UNCHANGED <<tolerances, distances, budgets>>
    /\ UNCHANGED notTol

\* tolerances below 0, within [0, 1] and above 1
ToleranceArgs == (-1..MaxTol) \cup {160, 161}

InitTol ==
    /\ pc = "start"
    /\ case = disorder_cases[2]
    /\ max_clash = 0
    /\ tolerances \in {tt \in ToleranceArgs \X ToleranceArgs : tt[1] <= tt[2]}
    /\ distances \in
           UNION {[1..n -> (2 * vdW_radii_tsai_1999.C - 1)
                               ..(2 * vdW_radii_tsai_1999.C + MaxTol)] :
                      n \in 1..MaxTolPairs}
    /\ budgets = <<>>
    /\ outcomes = <<>>
    /\ IdleCC
    /\ IdleRot
    /\ IdlePS
    /\ IdleSW
    /\ IdleBC
    /\ IdlePivot
    /\ IdleFCC
    /\ IdleAlign
    /\ IdleStruct

NextTol ==
    \/ tolerance_calculator_call
    \/ count_clashes_call

SpecTol == InitTol /\ [][NextTol]_vars

-----------------------------------------------------------------------------
(* Claims on tolerance_calculator and count_clashes, checked under SpecTol *)

\* C28: acceptance is monotone in the normalized tolerance: if count_clashes
\* returns a count under the budget of t1, it returns a count under the
\* budget of every t2 >= t1 in [0, 1].
C28_AcceptanceMonotone ==
    (/\ pc = "done"
     /\ 0 <= tolerances[1]
     /\ tolerances[1] <= tolerances[2]
     /\ tolerances[2] <= 160
     /\ ~outcomes[1].exceeded) =>
        ~outcomes[2].exceeded

-----------------------------------------------------------------------------
(* ldrs_helper.align_coords.  Lengths are whole numbers of 1e-4 angstrom;  *)
(* lines 384-393 treat the three axes alike and the model follows x.  The  *)
(* coordinates the rotation of lines 375-381 yields are drawn.  `sample`   *)
(* is an array of strings of at most 8 characters (libstructure.py,        *)
(* dtype '<U8'): a number written into it keeps its first 8 characters.    *)
(* Coordinates are those a PDB file can hold, -999.999 to 9999.999.        *)

MaxAlignRes == 3    \* residues of the fragment aligned

\* digits before the decimal point of a length
IntDigits(x) ==
    LET a == (IF x < 0 THEN 0 - x ELSE x) \div 10000
    IN  IF a < 10 THEN 1 ELSE IF a < 100 THEN 2 ELSE IF a < 1000 THEN 3 ELSE 4

\* x cut toward zero to a multiple of m
CutTo(x, m) == IF x >= 0 THEN (x \div m) * m ELSE 0 - (((0 - x) \div m) * m)

\* lines 382, 391-393: the number read back from a cell of `sample` after
\* str(x) was assigned to it: sign, digits and point take their characters
\* and the decimals that do not fit in the 8 are lost
Str8(x) ==
    LET decimals == 7 - IntDigits(x) - (IF x < 0 THEN 1 ELSE 0)
    IN  IF decimals >= 4 THEN x ELSE CutTo(x, 10)

\* round(v, 2): the nearest multiple of 1e-2
Round2(v, tie_up) ==
    LET q == v \div 100
        r == v % 100
    IN  IF r < 50 THEN q * 100
        ELSE IF r > 50 THEN (q + 1) * 100
        ELSE IF tie_up THEN (q + 1) * 100 ELSE q * 100

\* lines 388-390: round(v, 3), the nearest multiple of 1e-3; the float
\* nearest to a value halfway between two of them lies on either side
Round3(v, tie_up) ==
    LET q == v \div 10
        r == v % 10
    IN  IF r < 5 THEN q * 10
        ELSE IF r > 5 THEN (q + 1) * 10
        ELSE IF tie_up THEN (q + 1) * 10 ELSE q * 10

\* lines 337-350, 353-363: the rows (0-based) the scan passes over before
\* the break
AlignScanned(arr, c) ==
    LET first_seq == arr[1].res
        last_seq == arr[Len(arr)].res
    IN  CASE c = disorder_cases[1] ->
                {j \in 0..(Len(arr) - 1) :
                    \A k \in j..(Len(arr) - 1) : arr[k + 1].res # last_seq - 2}
          [] c = disorder_cases[3] ->
                {i \in 0..(Len(arr) - 1) :
                    \A k \in 0..i : arr[k + 1].res # first_seq + 2}
          [] OTHER -> {}

\* lines 342-347, 357-361: the scanned rows that set idr_term_idx[key]
AlignMatches(arr, c, key) ==
    LET first_seq == arr[1].res
        last_seq == arr[Len(arr)].res
        wanted == IF c = disorder_cases[1]
                  THEN (IF key = "C" THEN last_seq - 1 ELSE last_seq)
                  ELSE (IF key = "C" THEN first_seq ELSE first_seq + 1)
    IN  {k \in AlignScanned(arr, c) :
            arr[k + 1].res = wanted /\ arr[k + 1].name = key}

\* idr_term_idx[key]: the last assignment the scan makes
idr_term_idx(arr, c, key) ==
    IF c = disorder_cases[1] THEN Min(AlignMatches(arr, c, key))
    ELSE Max(AlignMatches(arr, c, key))

\* lines 365-367: a key the scan never set
AlignKeyError(arr, c) ==
    \E key \in {"C", "N", "CA"} : AlignMatches(arr, c, key) = {}

\* lines 329-395
align_coords ==
    /\ pc = "start"
    /\ ~AlignKeyError(sample, case)
    /\ \E a \in {-1000047, 4}, b \in {-7, 13}, tie_up \in BOOLEAN :
         LET rotated_points == [k \in 1..Len(sample) |-> a + b * k]
             stored == [k \in 1..Len(sample) |-> Str8(rotated_points[k])]
             tv == target0 - stored[idr_term_idx(sample, case, "C") + 1]
         IN  /\ translation_vector' = tv
             /\ sample_x' = [k \in 1..Len(sample) |->
                                Str8(Round3(tv + stored[k], tie_up))]
    /\ align_out' = "returned"
    /\ pc' = "done"
    /\ UNCHANGED <<case, sample, target0>>
    /\ UNCHANGED notAlign

\* lines 365-367: idr_term_idx lacks a key
align_coords_KeyError ==
    /\ pc = "start"
    /\ AlignKeyError(sample, case)
    /\ align_out' = "KeyError"
    /\ pc' = "raised"
    /\ UNCHANGED <<case, sample, sample_x, target0, translation_vector>>
    /\ UNCHANGED notAlign

InitAlign ==
    /\ pc = "start"
    /\ case \in {disorder_cases[1], disorder_cases[2], disorder_cases[3]}
    /\ max_clash = 0
    /\ sample \in {ChainRows(kinds, 1) :
                      kinds \in UNION {[1..n -> {"backbone", "amide"}] :
                                          n \in 1..MaxAlignRes}}
    /\ sample_x = [k \in 1..Len(sample) |-> 10 * k]
    /\ target0 \in {-9999990, -25, 0, 13, 99999990}
    /\ translation_vector = 0
    /\ align_out = ""
    /\ IdleCC
    /\ IdleRot
    /\ IdlePS
    /\ IdleSW
    /\ IdleBC
    /\ IdlePivot
    /\ IdleFCC
    /\ IdleTol
    /\ IdleStruct

NextAlign ==
    \/ align_coords
    \/ align_coords_KeyError

SpecAlign == InitAlign /\ [][NextAlign]_vars

-----------------------------------------------------------------------------
(* Claims on align_coords, checked under SpecAlign *)

\* the row (1-based) of the fragment's anchor C atom: the C of the
\* penultimate residue with N-IDR, the C of the first residue with C-IDR
AnchorC ==
    CHOOSE k \in 1..Len(sample) :
        /\ sample[k].name = "C"
        /\ sample[k].res = IF case = "N-IDR"
                           THEN sample[Len(sample)].res - 1
                           ELSE sample[1].res

\* C21: after align_coords returns for N-IDR or C-IDR the coordinate of the
\* fragment's anchor C atom is within 1e-3 of the target's first point.
C21_AnchorOnTarget ==
    (pc = "done" /\ case \in {"N-IDR", "C-IDR"}) =>
        /\ sample_x[AnchorC] - target0 < 10
        /\ target0 - sample_x[AnchorC] < 10

\* a fragment was moved onto a target that is no multiple of 1e-3, so the
\* anchor's coordinate was rounded off it
C21_Witness ==
    /\ pc = "done"
    /\ case \in {"N-IDR", "C-IDR"}
    /\ translation_vector # 0
    /\ sample_x[AnchorC] # target0

-----------------------------------------------------------------------------
(* libstructure.Structure: one object, from the end of __init__ on, under  *)
(* any sequence of calls of its methods and reads of its properties.       *)

MaxFilters == 2    \* filters held at once

\* line 42 left out: the raw data stay
DatastrKept(d) == d

\* line 42: del self._datastr
DatastrDeleted(d) == FALSE

\* the record of a call
Call(op, outcome) == [op |-> op, outcome |-> outcome]

\* lines 35-42
build ==
    /\ IF ~datastr
       THEN /\ last_call' = Call("build", "AttributeError")
            /\ UNCHANGED <<datastr, data_array>>
       ELSE IF parser = "error"
            THEN /\ last_call' = Call("build", "parser error")
                 /\ UNCHANGED <<datastr, data_array>>
            ELSE /\ data_array' = "array"
                 /\ datastr' = DatastrDeleted(datastr)
                 /\ last_call' = Call("build", "returned")
    /\ UNCHANGED <<pc, parser, filters>>
    /\ UNCHANGED notStruct

\* lines 44-45
clear_filters ==
    /\ filters' = <<>>
    /\ last_call' = Call("clear_filters", "returned")
    /\ UNCHANGED <<pc, parser, datastr, data_array>>
    /\ UNCHANGED notStruct

\* lines 51-64
filtered_atoms ==
    /\ last_call' =
           IF data_array = "None"
           THEN (IF filters = <<>>
                 THEN Call("filtered_atoms", "returned None")
                 ELSE Call("filtered_atoms", "TypeError"))
           ELSE Call("filtered_atoms", "returned data")
    /\ UNCHANGED <<pc, parser, datastr, data_array, filters>>
    /\ UNCHANGED notStruct

\* lines 66-69
chain_set ==
    /\ last_call' =
           IF data_array = "None"
           THEN Call("chain_set", "TypeError")
           ELSE Call("chain_set", "returned data")
    /\ UNCHANGED <<pc, parser, datastr, data_array, filters>>
    /\ UNCHANGED notStruct

\* lines 71-72
pop_last_filter ==
    /\ IF filters = <<>>
       THEN /\ last_call' = Call("pop_last_filter", "IndexError")
            /\ UNCHANGED filters
       ELSE /\ filters' = SubSeq(filters, 1, Len(filters) - 1)
            /\ last_call' = Call("pop_last_filter", "returned")
    /\ UNCHANGED <<pc, parser, datastr, data_array>>
    /\ UNCHANGED notStruct

\* lines 74-88: add_filter, add_filter_record_name, add_filter_chain
add_filter ==
    /\ Len(filters) < MaxFilters
    /\ \E f \in {"function", "record_name", "chain"} :
         /\ filters' = Append(filters, f)
         /\ last_call' = Call("add_filter", "returned")
    /\ UNCHANGED <<pc, parser, datastr, data_array>>
    /\ UNCHANGED notStruct

\* lines 21-30: the object __init__ leaves
InitStruct ==
    /\ pc = "start"
    /\ case = disorder_cases[2]
    /\ max_clash = 0
    /\ parser \in {"array", "error"}
    /\ datastr = TRUE
    /\ data_array = "None"
    /\ filters = <<>>
    /\ last_call = Call("__init__", "returned")
    /\ IdleCC
    /\ IdleRot
    /\ IdlePS
    /\ IdleSW
    /\ IdleBC
    /\ IdlePivot
    /\ IdleFCC
    /\ IdleTol
    /\ IdleAlign

NextStruct ==
    \/ build
    \/ clear_filters
    \/ filtered_atoms
    \/ chain_set
    \/ pop_last_filter
    \/ add_filter

SpecStruct == InitStruct /\ [][NextStruct]_vars

-----------------------------------------------------------------------------
(* Claims on Structure, checked under SpecStruct *)

\* C29: while the structure is not built every read of derived data
\* (filtered_atoms, chain_set) fails instead of returning a value, whatever
\* filter operations came before.
C29_NoDataBeforeBuilt ==
    (data_array = "None" /\ last_call.op \in {"filtered_atoms", "chain_set"}) =>
        last_call.outcome \in {"TypeError", "AttributeError"}

\* C30: build() takes the structure from Unbuilt to Built once: a call that
\* returns fills data_array and deletes the raw data, a built structure
\* stays built, and a call of build() on a built structure fails and leaves
\* data_array and the filters as they were.
C30_BuildOnce ==
    [][/\ (last_call'.op = "build" /\ last_call'.outcome = "returned") =>
              (data_array = "None" /\ data_array' = "array" /\ ~datastr')
       /\ data_array # "None" =>
              /\ data_array' = data_array
              /\ last_call'.op = "build" =>
                     /\ last_call'.outcome = "AttributeError"
                     /\ filters' = filters]_vars

\* build() was called on a built structure that holds filters
C30_Witness ==
    /\ data_array = "array"
    /\ filters # <<>>
    /\ last_call = Call("build", "AttributeError")

=============================================================================
